---- MODULE Spec2Model ----
(***************************************************************************)
(* Grid-based radius search of jibarix/crim_search:                        *)
(*   search_interface.py  main, rate_limited_query, grid_radius_search     *)
(*   query_utils.py       query_properties_paginated                       *)
(*   grid_search.py       haversine_distance, filter_properties_by_radius  *)
(*                                                                         *)
(* Units.  Coordinates are integers in 1e-5 degree.  Lengths are integers  *)
(* in millimetres.  Time is in whole seconds.  Records with coordinates    *)
(* lie on the meridian of the centre, where the haversine distance is      *)
(* EARTH_RADIUS_KM * |dlat| (dlat in radians).                             *)
(***************************************************************************)
EXTENDS Integers, Sequences, FiniteSets, TLC

\* ------------------------------------------------------------- bounds
\* page_size and max_pages are parameters of query_properties_paginated;
\* grid_radius_search passes 100 and 10, the model checks the same code
\* for small values.
PageSize == 2
MaxPages == 2
\* The backend holds at most MaxBackend different records in one run.
MaxBackend == 3

\* ---------------------------------------------------- program constants
DEFAULT_CALLS_PER_MINUTE == 30
RATE_LIMIT_PERIOD == 60
\* RateLimitDecorator.clamped_calls: the value of CALLS_PER_MINUTE when the
\* decorator expression @limits(calls=CALLS_PER_MINUTE, ...) was evaluated,
\* that is at import, before main runs.
clamped_calls == DEFAULT_CALLS_PER_MINUTE
\* MILES_TO_KM = 1.60934, as millimetres per mile.
MILES_TO_MM == 1609340
\* MILES_TO_KM = 1.60934 scaled by 1e5 (kilometres * 1e5 per mile).
MILES_TO_KM_E5 == 160934
\* EARTH_RADIUS_KM * pi / 180 = 111.19493 km per degree, as millimetres per
\* 1e-5 degree (1111.9493, rounded).
EARTH_MM_PER_UNIT == 1112
\* "1 degree of latitude is approximately 111 kilometers"
KM_PER_DEGREE == 111
\* The clock counts half seconds.
TICKS_PER_SECOND == 2
Ticks(seconds) == seconds * TICKS_PER_SECOND
\* time.sleep(1) between pages, in seconds.
PAGE_DELAY == 1
\* time.sleep(0.5 + random.random()) between cells: a value of [0.5, 1.5)
\* drawn for every cell, here to the nearest half second, in ticks.
CELL_DELAY_MIN == 1
CELL_DELAY_MAX == 3
CellDelays == CELL_DELAY_MIN..CELL_DELAY_MAX

\* ------------------------------------------------------------- records
\* Scenario centre (18.4655, -66.1057).
CenterLat == 1846550
CenterLon == 0 - 6610570

\* The records the backend can hold, in its storage order: one without
\* coordinates; 0.5 mile north; the same OBJECTID just outside the radius of
\* one mile but inside the bounding box; 2 miles north; OBJECTID 0 just
\* inside the radius; one without OBJECTID; one sold on 2019-06-30, a metre
\* nearer than the second; one sold on 2020-06-15; one on the equator
\* (latitude 0); one with timestamp 0; one with the timestamp
\* 99999999999999 ms; one with a negative timestamp.  SALESDTTM is held in
\* units of TIMESTAMP_UNIT seconds.
RecordSeq ==
  << [OBJECTID |-> 2],
     [OBJECTID |-> 1, INSIDE_Y |-> CenterLat + 724,  INSIDE_X |-> CenterLon],
     [OBJECTID |-> 1, INSIDE_Y |-> CenterLat + 1448, INSIDE_X |-> CenterLon],
     [OBJECTID |-> 3, INSIDE_Y |-> CenterLat + 2894, INSIDE_X |-> CenterLon],
     [OBJECTID |-> 0, INSIDE_Y |-> CenterLat - 1447, INSIDE_X |-> CenterLon],
     [INSIDE_Y |-> CenterLat - 724, INSIDE_X |-> CenterLon],
     [OBJECTID |-> 4, INSIDE_Y |-> CenterLat - 723,  INSIDE_X |-> CenterLon,
      SALESDTTM |-> 15618528],
     [OBJECTID |-> 5, INSIDE_Y |-> CenterLat + 100,  INSIDE_X |-> CenterLon,
      SALESDTTM |-> 15921792],
     [OBJECTID |-> 6, INSIDE_Y |-> 0,                INSIDE_X |-> CenterLon,
      SALESDTTM |-> 15921792],
     [OBJECTID |-> 7, INSIDE_Y |-> CenterLat + 200,  INSIDE_X |-> CenterLon,
      SALESDTTM |-> 0],
     [OBJECTID |-> 8, INSIDE_Y |-> CenterLat + 300,  INSIDE_X |-> CenterLon,
      SALESDTTM |-> 999999999],
     [OBJECTID |-> 9, INSIDE_Y |-> CenterLat - 300,  INSIDE_X |-> CenterLon,
      SALESDTTM |-> 0 - 10] >>

Records == {RecordSeq[k] : k \in 1..Len(RecordSeq)}

\* The records without a sale, and the records of the runs with sale dates.
UnsoldRecords == {r \in Records : "SALESDTTM" \notin DOMAIN r}
SaleRecords == {RecordSeq[2], RecordSeq[7], RecordSeq[8]}

\* The records of the runs that explore field values: a sale in 2020, the
\* latitude 0, and the timestamps 0, past the range and negative.
ValueRecords == {RecordSeq[8], RecordSeq[9], RecordSeq[10], RecordSeq[11], RecordSeq[12]}

\* dict.get(key) is not None
Has(prop, key) == key \in DOMAIN prop

\* Python truth value of dict.get(key): absent (None) and 0 are false.
Truthy(prop, key) == Has(prop, key) /\ prop[key] # 0

Abs(x) == IF x < 0 THEN 0 - x ELSE x

\* haversine_distance for two points, in millimetres.  Defined on a common
\* meridian (lon1 = lon2), where a = sin(dlat/2)^2 and c = |dlat|.
haversine_distance(lat1, lon1, lat2, lon2) ==
  EARTH_MM_PER_UNIT * Abs(lat2 - lat1)

\* Mutant: the exact distance test accepts every candidate of the bounding box.
WithinRadiusBoxOnly(distance_mm, radius_miles) == TRUE

\* distance_miles <= radius_miles, with distance_miles = distance_km / MILES_TO_KM
WithinRadius(distance_mm, radius_miles) ==
  distance_mm <= radius_miles * MILES_TO_MM

\* round(distance_km, 3), in metres
RoundKm(distance_mm) == (distance_mm + 500) \div 1000

\* round(distance_km / MILES_TO_KM, 3), in thousandths of a mile
RoundMiles(distance_mm) == (distance_mm * 100 + (MILES_TO_KM_E5 \div 2)) \div MILES_TO_KM_E5

\* idx.intersection((min_lon, min_lat, max_lon, max_lat)) hit test for the
\* point box (prop_lon, prop_lat, prop_lon, prop_lat).  lat_offset is
\* radius_km / 111.0 degrees; on the centre's meridian the longitude test
\* min_lon <= prop_lon <= max_lon holds.
InBoundingBox(prop, center_lat, center_lon, radius_miles) ==
  /\ prop.INSIDE_X = center_lon
  /\ Abs(prop.INSIDE_Y - center_lat) * KM_PER_DEGREE <= radius_miles * MILES_TO_KM_E5


\* ------------------------------------------- filter_properties_by_radius
\* First pass: valid_properties.append((i, prop)) for the records whose
\* coordinates are both true; i is the 0-based position in `properties`.
RECURSIVE ValidProperties(_, _)
ValidProperties(properties, n) ==
  IF n = 0 THEN <<>>
  ELSE LET rest == ValidProperties(properties, n - 1)
           prop == properties[n]
       IN  IF Truthy(prop, "INSIDE_Y") /\ Truthy(prop, "INSIDE_X")
           THEN Append(rest, <<n - 1, prop>>)
           ELSE rest

\* The ids idx.intersection(bounding box) yields: the ids inserted in the
\* first pass (positions in the original list) whose point is in the box.
IntersectionIds(properties, center_lat, center_lon, radius_miles) ==
  {k - 1 : k \in {j \in 1..Len(properties) :
      /\ Truthy(properties[j], "INSIDE_Y") /\ Truthy(properties[j], "INSIDE_X")
      /\ InBoundingBox(properties[j], center_lat, center_lon, radius_miles)}}

\* rtree yields the ids in an order of its own: any enumeration of the set.
Enumerations(S) ==
  {f \in [1..Cardinality(S) -> S] : \A a, b \in 1..Cardinality(S) : a # b => f[a] # f[b]}

\* prop['DISTANCE_KM'] = ...; prop['DISTANCE_MILES'] = ...
Annotate(prop, distance_mm) ==
  [DISTANCE_KM |-> RoundKm(distance_mm), DISTANCE_MILES |-> RoundMiles(distance_mm)] @@ prop

\* Second pass over the ids in the order `ids`.  valid_properties[id_object]
\* is a list subscript: an id past the end raises IndexError.  The two
\* distances are written into the caller's dict: `touched` holds, by
\* position in the caller's list, the dicts written so far, which stay
\* written when an IndexError follows.
RECURSIVE SecondPass(_, _, _, _, _, _)
SecondPass(ids, k, valid_properties, center_lat, center_lon, radius_miles) ==
  IF k = 0 THEN [raised |-> FALSE, list |-> <<>>, touched |-> {}]
  ELSE LET before == SecondPass(ids, k - 1, valid_properties, center_lat, center_lon, radius_miles)
           id_object == ids[k]
       IN  IF before.raised THEN before
           ELSE IF id_object >= Len(valid_properties)
           THEN [raised |-> TRUE, list |-> <<>>, touched |-> before.touched]
           ELSE LET position == valid_properties[id_object + 1][1]
                    prop == valid_properties[id_object + 1][2]
                    distance_mm == haversine_distance(center_lat, center_lon,
                                                      prop.INSIDE_Y, prop.INSIDE_X)
                IN  IF WithinRadius(distance_mm, radius_miles)
                    THEN [raised |-> FALSE,
                          list |-> Append(before.list, Annotate(prop, distance_mm)),
                          touched |-> before.touched
                                        \cup {<<position, Annotate(prop, distance_mm)>>}]
                    ELSE before

\* The caller's list after the call: the dicts the second pass wrote are the
\* elements of the list.
Written(properties, touched) ==
  [k \in 1..Len(properties) |->
     IF \E t \in touched : t[1] = k - 1
     THEN (CHOOSE t \in touched : t[1] = k - 1)[2]
     ELSE properties[k]]

\* list.sort(key=DISTANCE_MILES): a stable sort.
RECURSIVE InsertByDistance(_, _)
InsertByDistance(sorted, prop) ==
  IF sorted = <<>> THEN <<prop>>
  ELSE IF sorted[Len(sorted)].DISTANCE_MILES <= prop.DISTANCE_MILES
  THEN Append(sorted, prop)
  ELSE Append(InsertByDistance(SubSeq(sorted, 1, Len(sorted) - 1), prop), sorted[Len(sorted)])

RECURSIVE SortByDistance(_, _)
SortByDistance(list, n) ==
  IF n = 0 THEN <<>> ELSE InsertByDistance(SortByDistance(list, n - 1), list[n])

\* filter_properties_by_radius, with the order in which the spatial index
\* yields the ids as a parameter.  Either raises or returns the sorted list;
\* `properties` is the caller's list as the call leaves it.
\* A negative radius gives min_lat > max_lat, which idx.intersection rejects
\* with RTreeError (minimums more than maximums), before any dict is written.
filter_properties_by_radius(properties, center_lat, center_lon, radius_miles, ids) ==
  LET valid_properties == ValidProperties(properties, Len(properties))
      pass == SecondPass(ids, Len(ids), valid_properties, center_lat, center_lon, radius_miles)
  IN  IF radius_miles < 0
      THEN [raised |-> TRUE, list |-> <<>>, properties |-> properties]
      ELSE IF pass.raised
      THEN [raised |-> TRUE, list |-> <<>>, properties |-> Written(properties, pass.touched)]
      ELSE [raised |-> FALSE, list |-> SortByDistance(pass.list, Len(pass.list)),
            properties |-> Written(properties, pass.touched)]

\* Mutant: the merge tests seen_objectids but never adds to it.
RECURSIVE MergeForgetsSeen(_, _, _, _)
MergeForgetsSeen(all, seen, cell_properties, n) ==
  IF n = 0 THEN [all_properties |-> all, seen_objectids |-> seen]
  ELSE LET before == MergeForgetsSeen(all, seen, cell_properties, n - 1)
           prop == cell_properties[n]
       IN  IF Truthy(prop, "OBJECTID") /\ prop.OBJECTID \notin before.seen_objectids
           THEN [all_properties |-> Append(before.all_properties, prop),
                 seen_objectids |-> before.seen_objectids]
           ELSE before

\* Mutant: the merge forgets to test seen_objectids.
RECURSIVE MergeWithoutSeen(_, _, _, _)
MergeWithoutSeen(all, seen, cell_properties, n) ==
  IF n = 0 THEN [all_properties |-> all, seen_objectids |-> seen]
  ELSE LET before == MergeWithoutSeen(all, seen, cell_properties, n - 1)
           prop == cell_properties[n]
       IN  IF Truthy(prop, "OBJECTID")
           THEN [all_properties |-> Append(before.all_properties, prop),
                 seen_objectids |-> before.seen_objectids \cup {prop.OBJECTID}]
           ELSE before

\* ------------------------------------------------- grid_radius_search merge
\* for prop in cell_properties: objectid = prop.get('OBJECTID');
\*   if objectid and objectid not in seen_objectids: add, append
RECURSIVE MergeCellProperties(_, _, _, _)
MergeCellProperties(all, seen, cell_properties, n) ==
  IF n = 0 THEN [all_properties |-> all, seen_objectids |-> seen]
  ELSE LET before == MergeCellProperties(all, seen, cell_properties, n - 1)
           prop == cell_properties[n]
       IN  IF Truthy(prop, "OBJECTID") /\ prop.OBJECTID \notin before.seen_objectids
           THEN [all_properties |-> Append(before.all_properties, prop),
                 seen_objectids |-> before.seen_objectids \cup {prop.OBJECTID}]
           ELSE before

\* ------------------------------------------------------------ backend
\* A page of a response: at most page_size different records of the backend,
\* in storage order.
RECURSIVE PageOf(_, _)
PageOf(S, k) ==
  IF k = 0 THEN <<>>
  ELSE IF RecordSeq[k] \in S THEN Append(PageOf(S, k - 1), RecordSeq[k])
  ELSE PageOf(S, k - 1)

Pages(held, page_size) ==
  {PageOf(S, Len(RecordSeq)) : S \in {T \in SUBSET held : Cardinality(T) <= page_size}}


\* ------------------------------------------------------ create_grid_cells
\* radius_km / 111.0, in 1e-5 degree
radius_deg_lat(radius_miles) == (radius_miles * MILES_TO_KM_E5) \div KM_PER_DEGREE

\* cos(radians(center_lat)) * 1000 for the centre's latitude 18.4655
COS_CENTER_E3 == 949

\* radius_km / (111.0 * cos(radians(center_lat))), in 1e-5 degree
radius_deg_lon(radius_miles) ==
  (radius_miles * MILES_TO_KM_E5 * 1000) \div (KM_PER_DEGREE * COS_CENTER_E3)

\* Mutant: the cells of a column all lie on the row j = 0.
create_grid_cells_one_row(center_lat, center_lon, radius_miles, grid_size) ==
  LET min_lat == center_lat - radius_deg_lat(radius_miles)
      max_lat == center_lat + radius_deg_lat(radius_miles)
      min_lon == center_lon - radius_deg_lon(radius_miles)
      max_lon == center_lon + radius_deg_lon(radius_miles)
      width == max_lon - min_lon
      height == max_lat - min_lat
  IN  [n \in 1..(IF grid_size > 0 THEN grid_size * grid_size ELSE 0) |->
         LET i == (n - 1) \div grid_size
         IN  << grid_size * min_lon + i * width,
                grid_size * min_lat,
                grid_size * min_lon + (i + 1) * width,
                grid_size * min_lat + height >>]

\* The cells in the order of the two nested loops (i outer, j inner).  Each
\* cell is <<min_lon, min_lat, max_lon, max_lat>> with every coordinate
\* multiplied by grid_size, so that min + i * (max - min) / grid_size is exact.
\* range(grid_size) is empty for a negative grid_size; grid_size = 0 divides
\* by zero (see StartSearch).
create_grid_cells(center_lat, center_lon, radius_miles, grid_size) ==
  LET min_lat == center_lat - radius_deg_lat(radius_miles)
      max_lat == center_lat + radius_deg_lat(radius_miles)
      min_lon == center_lon - radius_deg_lon(radius_miles)
      max_lon == center_lon + radius_deg_lon(radius_miles)
      width == max_lon - min_lon
      height == max_lat - min_lat
  IN  [n \in 1..(IF grid_size > 0 THEN grid_size * grid_size ELSE 0) |->
         LET i == (n - 1) \div grid_size
             j == (n - 1) % grid_size
         IN  << grid_size * min_lon + i * width,
                grid_size * min_lat + j * height,
                grid_size * min_lon + (i + 1) * width,
                grid_size * min_lat + (j + 1) * height >>]

\* --------------------------------------------- get_coordinates_by_catastro
\* What the lookup of a catastro number can meet.
LookupOutcomes == {"found", "no_features", "no_attributes", "no_coordinates", "exception"}

\* Python's None as the value of a date.
None == 0 - 1

\* Every path but the one that finds both coordinates returns None (here the
\* empty tuple); the exception of the request is caught inside the function.
get_coordinates_by_catastro(outcome) ==
  IF outcome = "found" THEN <<CenterLat, CenterLon>> ELSE <<>>

\* Mutant: the caller takes every value of the lookup for coordinates.
NotCoordsNever(coords_value) == FALSE

\* `if not coords`
NotCoords(coords_value) == coords_value = <<>>

\* ------------------------------------------- create_cell_query_parameters
\* A filter set is a function from keys to values.  A date 'YYYY-MM-DD' is
\* held as the integer YYYYMMDD, which has the same order, and the empty
\* string as 0.  MUNICIPIO is a string; amounts and areas are integers.
StringKeys == {"MUNICIPIO", "TIPO"}
QuotedKeys == {"MUNICIPIO", "TIPO", "SALESDTTM_MIN", "SALESDTTM_MAX"}
HandledKeys == {"MUNICIPIO", "SALESAMT_MIN", "SALESAMT_MAX", "CABIDA_MIN", "CABIDA_MAX"}

\* Python truth value of a date: None and '' are false.
DateTrue(d) == d # None /\ d # 0

\* Python truth value of additional_params.get(key)
ParamTrue(params, key) ==
  /\ key \in DOMAIN params
  /\ IF key \in StringKeys THEN params[key] # "" ELSE DateTrue(params[key])

\* dict.pop(key, None), the dict that is left
Pop(params, key) == [k \in DOMAIN params \ {key} |-> params[k]]

Clause(column, op, value, quoted) ==
  [column |-> column, op |-> op, value |-> value, quoted |-> quoted]

\* `for key, value in additional_params.items()`: the loop takes the keys in
\* the dict's insertion order, `keys`, and appends a clause for each key that
\* is (still) in the dict and has no clause of its own: key = 'value' for a
\* string, key = value otherwise.
RECURSIVE RemainingClauses(_, _)
RemainingClauses(params, keys) ==
  IF keys = <<>> THEN <<>>
  ELSE LET key == Head(keys)
       IN  (IF key \in DOMAIN params \ HandledKeys
            THEN <<Clause(key, "=", params[key], key \in QuotedKeys)>>
            ELSE <<>>)
             \o RemainingClauses(params, Tail(keys))

\* The clauses of where_conditions, in the order the code appends them.
WhereConditions(params, keys) ==
  (IF ParamTrue(params, "MUNICIPIO")
   THEN <<Clause("MUNICIPIO", "=", params["MUNICIPIO"], TRUE)>> ELSE <<>>)
  \o (IF "SALESAMT_MIN" \in DOMAIN params
      THEN <<Clause("SALESAMT", ">=", params["SALESAMT_MIN"], FALSE)>> ELSE <<>>)
  \o (IF "SALESAMT_MAX" \in DOMAIN params
      THEN <<Clause("SALESAMT", "<=", params["SALESAMT_MAX"], FALSE)>> ELSE <<>>)
  \o (IF "CABIDA_MIN" \in DOMAIN params
      THEN <<Clause("CABIDA", ">=", params["CABIDA_MIN"], FALSE)>> ELSE <<>>)
  \o (IF "CABIDA_MAX" \in DOMAIN params
      THEN <<Clause("CABIDA", "<=", params["CABIDA_MAX"], FALSE)>> ELSE <<>>)
  \o RemainingClauses(params, keys)

\* create_cell_query_parameters: the descriptor (its geometry and, when
\* there is a condition, its where), the two dates, and the caller's dict as
\* the call leaves it: a date key is popped from that dict when its value is
\* true.  `keys` is the insertion order of the keys of the caller's dict (a
\* pop leaves the order of the other keys as it was).
create_cell_query_parameters(cell, additional_params, keys) ==
  IF DOMAIN additional_params = {}
  THEN [base_params |-> [geometry |-> cell], min_date |-> None, max_date |-> None,
        additional_params |-> additional_params]
  ELSE
  LET min_true == ParamTrue(additional_params, "SALESDTTM_MIN")
      min_date == IF min_true THEN additional_params["SALESDTTM_MIN"] ELSE None
      after_min == IF min_true THEN Pop(additional_params, "SALESDTTM_MIN")
                   ELSE additional_params
      max_true == ParamTrue(after_min, "SALESDTTM_MAX")
      max_date == IF max_true THEN after_min["SALESDTTM_MAX"] ELSE None
      remaining == IF max_true THEN Pop(after_min, "SALESDTTM_MAX") ELSE after_min
      where_conditions == WhereConditions(remaining, keys)
  IN  [base_params |-> IF where_conditions # <<>>
                       THEN [geometry |-> cell, where |-> where_conditions]
                       ELSE [geometry |-> cell],
       min_date |-> min_date,
       max_date |-> max_date,
       additional_params |-> remaining]

\* --------------------------------------------------- process_property_data
SECONDS_PER_DAY == 86400
TIMESTAMP_MAX == 2147483647
\* A SALESDTTM of the model counts units of 100 seconds (100000 ms), so that
\* the timestamps past the range have a value.
TIMESTAMP_UNIT == 100

\* datetime.fromtimestamp(timestamp_seconds).strftime('%Y-%m-%d'), as the
\* integer YYYYMMDD, for a clock on UTC: the civil date of the day number.
FormatDate(timestamp_seconds) ==
  LET z == ((timestamp_seconds * TIMESTAMP_UNIT) \div SECONDS_PER_DAY) + 719468
      era == z \div 146097
      doe == z - era * 146097
      yoe == (doe - (doe \div 1460) + (doe \div 36524) - (doe \div 146096)) \div 365
      doy == doe - (365 * yoe + (yoe \div 4) - (yoe \div 100))
      mp == (5 * doy + 2) \div 153
      d == doy - ((153 * mp + 2) \div 5) + 1
      m == IF mp < 10 THEN mp + 3 ELSE mp - 9
      y == yoe + era * 400 + (IF m <= 2 THEN 1 ELSE 0)
  IN  y * 10000 + m * 100 + d

\* One entry: the copy of the record, SALESDTTM_FORMATTED when SALESDTTM is
\* true (None for a timestamp out of range), the map link when both
\* coordinates are true.  The distances are computed again by the same
\* formula and keep their values.
ProcessEntry(prop) ==
  LET dated == IF Truthy(prop, "SALESDTTM")
               THEN [SALESDTTM_FORMATTED |->
                       IF 0 <= prop.SALESDTTM
                          /\ prop.SALESDTTM <= TIMESTAMP_MAX \div TIMESTAMP_UNIT
                       THEN FormatDate(prop.SALESDTTM) ELSE None] @@ prop
               ELSE prop
  IN  IF Truthy(prop, "INSIDE_Y") /\ Truthy(prop, "INSIDE_X")
      THEN [google_maps_satellite_link |-> <<prop.INSIDE_Y, prop.INSIDE_X>>] @@ dated
      ELSE dated

process_property_data(properties) ==
  [k \in 1..Len(properties) |-> ProcessEntry(properties[k])]

\* ----------------------------------- post_filter_results_by_formatted_date
\* A row's SALESDTTM_FORMATTED compares true: the cell is not missing (NaN
\* for a row without the key, None) and the comparison holds.
DateOnOrAfter(row, min_date) ==
  /\ Has(row, "SALESDTTM_FORMATTED")
  /\ row.SALESDTTM_FORMATTED # None
  /\ row.SALESDTTM_FORMATTED >= min_date

DateOnOrBefore(row, max_date) ==
  /\ Has(row, "SALESDTTM_FORMATTED")
  /\ row.SALESDTTM_FORMATTED # None
  /\ row.SALESDTTM_FORMATTED <= max_date

\* filtered_df[filtered_df['SALESDTTM_FORMATTED'] >= min_date] (lower) and
\* ... <= max_date (not lower): the rows for which the comparison is true,
\* in order.
RECURSIVE SelectRows(_, _, _, _)
SelectRows(rows, n, bound, lower) ==
  IF n = 0 THEN <<>>
  ELSE LET before == SelectRows(rows, n - 1, bound, lower)
           keep == IF lower THEN DateOnOrAfter(rows[n], bound)
                   ELSE DateOnOrBefore(rows[n], bound)
       IN  IF keep THEN Append(before, rows[n]) ELSE before

\* The DataFrame has the column SALESDTTM_FORMATTED when some row has the
\* key; each bound is applied only when it is true and the column exists.
post_filter_results_by_formatted_date(rows, min_date, max_date) ==
  LET has_column == \E k \in 1..Len(rows) : Has(rows[k], "SALESDTTM_FORMATTED")
      after_min == IF DateTrue(min_date) /\ has_column
                   THEN SelectRows(rows, Len(rows), min_date, TRUE) ELSE rows
  IN  IF DateTrue(max_date) /\ has_column
      THEN SelectRows(after_min, Len(after_min), max_date, FALSE) ELSE after_min

\* --------------------------------------------- completeness check
\* len(cell_props) >= limit_threshold
AtLimit(cell_props, limit_threshold) == Len(cell_props) >= limit_threshold

\* --------------------------------------------- query_properties_paginated
\* Mutant: every request asks for the first page.
OffsetFixed(page_number, page_size) == 0

\* offset = page * page_size
Offset(page_number, page_size) == page_number * page_size

\* ------------------------------------------------ grid_radius_search, loop
\* Mutant: a cell whose fetch had a failed request is fetched again.
AfterFetchRetry(index, fetch_failed) == IF fetch_failed THEN index ELSE index + 1

\* Mutant: the loop steps over the cell after the one it fetched.
AfterFetchSkips(index, fetch_failed) == index + 2

\* `for i, cell in enumerate(cells)`: the loop goes to the next cell
\* whatever the fetch returned.
AfterFetch(index, fetch_failed) == index + 1

\* --------------------------------------------------------------- state
VARIABLES
  \* inputs of one run
  args_rate_limit,   \* --rate-limit (argparse default 30)
  grid_size,         \* --grid
  radius_miles,      \* --radius
  held,              \* the records the backend holds
  start_delay,       \* seconds from import to the first cell (session set-up)
  latency,           \* seconds one HTTP request takes
  center_point,      \* "tuple" (lat, lon) or "catastro" (a catastro number)
  filters,           \* the filter set the caller passes as additional_params
  filter_keys,       \* the keys of that dict, in insertion order
  \* program state
  CALLS_PER_MINUTE,  \* module global of search_interface.py
  clock,             \* time.time() since import, in ticks
  last_reset,        \* RateLimitDecorator.last_reset
  num_calls,         \* RateLimitDecorator.num_calls
  pc,
  coords,            \* grid_radius_search: value of the lookup
  cells,
  i,                 \* cells finished so far (index of the current cell)
  additional_params, \* the caller's dict, as the calls leave it
  base_params,       \* descriptor of the current cell
  cell_min_date,
  cell_max_date,
  min_date,
  max_date,
  page,              \* query_properties_paginated: loop variable
  all_results,       \* query_properties_paginated: accumulator
  all_properties,
  seen_objectids,
  cells_at_limit,    \* cells of cell_properties_list with len >= limit_threshold
  warned,            \* the completeness warning was printed
  radius_filtered_properties,
  result,            \* the rows of the DataFrame grid_radius_search returns
  \* history
  fetched,           \* every record some page has delivered
  first_fetched,     \* per OBJECTID, the record first delivered with it
  any_failed,        \* some page request failed
  requests,          \* page requests issued by the current fetch
  short_seen,        \* the current fetch got a page shorter than page_size
  failed,            \* the current fetch had a failed page request
  delivered,         \* the records of the pages the current fetch received
  cap_hit,           \* some fetch received max_pages full pages
  solo,              \* each cell so far delivered at most one record, a new one
  params_in,         \* the dict create_cell_query_parameters was last given
  sent,              \* resultOffset and resultRecordCount of the current fetch's requests
  total_requests,    \* page requests sent in the search
  query_count,       \* per cell, invocations of query_properties_paginated
  blocked,           \* RateLimitException raised at least once
  probe,             \* start of one observed 60-second window
  probe_count        \* invocations of the rate-limited fetch inside it

inputs == <<args_rate_limit, grid_size, radius_miles, held, start_delay, latency, probe,
            center_point, filters, filter_keys>>
limiter == <<last_reset, num_calls>>
search == <<cells, i, all_properties, seen_objectids, cells_at_limit, result>>
outcome == <<coords, warned, radius_filtered_properties>>
params == <<additional_params, base_params, cell_min_date, cell_max_date, params_in>>
dates == <<min_date, max_date>>
fetch == <<page, all_results>>
fetch_history == <<failed, delivered, cap_hit, solo>>
request_history == <<sent, total_requests>>
history == <<fetched, first_fetched, any_failed, requests,
             short_seen, query_count, blocked, probe_count, fetch_history,
             request_history>>
vars == <<inputs, CALLS_PER_MINUTE, clock, limiter, pc, search, outcome, params, dates,
          fetch, history>>

\* The program state right after import, before main runs.
Imported ==
  /\ CALLS_PER_MINUTE = DEFAULT_CALLS_PER_MINUTE
  /\ clock = 0
  /\ last_reset = 0
  /\ num_calls = 0
  /\ pc = "main"
  /\ coords = <<>>
  /\ cells = <<>>
  /\ i = 0
  /\ additional_params = filters
  /\ base_params = <<>>
  /\ cell_min_date = None
  /\ cell_max_date = None
  /\ min_date = None
  /\ max_date = None
  /\ page = 0
  /\ all_results = <<>>
  /\ all_properties = <<>>
  /\ seen_objectids = {}
  /\ cells_at_limit = 0
  /\ warned = FALSE
  /\ radius_filtered_properties = <<>>
  /\ result = <<>>
  /\ fetched = {}
  /\ first_fetched = {}
  /\ any_failed = FALSE
  /\ requests = 0
  /\ short_seen = FALSE
  /\ failed = FALSE
  /\ delivered = <<>>
  /\ cap_hit = FALSE
  /\ solo = TRUE
  /\ params_in = <<>>
  /\ sent = <<>>
  /\ total_requests = 0
  /\ query_count = <<>>
  /\ blocked = FALSE
  /\ probe_count = 0

\* --grid in the runs that explore the data: one cell, and four cells.
GridSizes == {1, 2}

\* Runs that explore the data: any backend content, small grids, default
\* rate, the centre given as coordinates, no filter.
Init ==
  /\ args_rate_limit = DEFAULT_CALLS_PER_MINUTE
  /\ grid_size \in GridSizes
  /\ radius_miles = 1
  /\ held \in {H \in SUBSET UnsoldRecords : Cardinality(H) <= MaxBackend}
  /\ start_delay = 5
  /\ latency = 0
  /\ probe = 0
  /\ center_point = "tuple"
  /\ filters = <<>>
  /\ filter_keys = <<>>
  /\ Imported


\* ---------------------------------------------------------------- main
\* main: if hasattr(args, 'rate_limit') and args.rate_limit:
\*           global CALLS_PER_MINUTE; CALLS_PER_MINUTE = args.rate_limit
\* The decorator of rate_limited_query was built at import: it is not rebuilt.
Main ==
  /\ pc = "main"
  /\ CALLS_PER_MINUTE' = IF args_rate_limit # 0 THEN args_rate_limit ELSE CALLS_PER_MINUTE
  /\ pc' = "search"
  /\ UNCHANGED <<inputs, clock, limiter, search, outcome, params, dates, fetch, history>>

\* grid_radius_search up to the cell loop: session set-up, the lookup of a
\* catastro number, create_grid_cells, the empty accumulators.  A lookup
\* without coordinates returns the empty DataFrame; unpacking None raises
\* TypeError; create_grid_cells divides by grid_size, so grid_size = 0 raises
\* ZeroDivisionError.
StartSearch ==
  /\ pc = "search"
  /\ clock' = clock + Ticks(start_delay)
  /\ \E looked_up \in (IF center_point = "catastro" THEN LookupOutcomes ELSE {"found"}) :
       LET value == IF center_point = "catastro"
                    THEN get_coordinates_by_catastro(looked_up)
                    ELSE <<CenterLat, CenterLon>>
           made == IF value = <<>> \/ grid_size = 0 THEN <<>>
                   ELSE create_grid_cells(value[1], value[2], radius_miles, grid_size)
       IN  /\ coords' = value
           /\ cells' = made
           /\ query_count' = [n \in 1..Len(made) |-> 0]
           /\ pc' = IF center_point = "catastro" /\ NotCoords(value) THEN "done"
                    ELSE IF value = <<>> \/ grid_size = 0 THEN "raised"
                    ELSE IF Len(made) > 0 THEN "cell"
                    ELSE "filter"
  /\ i' = 0
  /\ all_properties' = <<>>
  /\ seen_objectids' = {}
  /\ cells_at_limit' = 0
  /\ min_date' = None
  /\ max_date' = None
  /\ result' = <<>>
  /\ UNCHANGED <<inputs, CALLS_PER_MINUTE, limiter, warned, radius_filtered_properties,
                 params, fetch, fetched, first_fetched, any_failed, requests, short_seen,
                 blocked, probe_count, fetch_history, request_history>>

\* The head of the loop body: create_cell_query_parameters for cell i, which
\* works on the caller's dict itself, and the two date updates.
CellParameters ==
  /\ pc = "cell"
  /\ LET made == create_cell_query_parameters(cells[i + 1], additional_params, filter_keys)
     IN  /\ params_in' = additional_params
         /\ additional_params' = made.additional_params
         /\ base_params' = made.base_params
         /\ cell_min_date' = made.min_date
         /\ cell_max_date' = made.max_date
         /\ min_date' = IF DateTrue(made.min_date)
                           /\ (min_date = None \/ made.min_date < min_date)
                        THEN made.min_date ELSE min_date
         /\ max_date' = IF DateTrue(made.max_date)
                           /\ (max_date = None \/ made.max_date > max_date)
                        THEN made.max_date ELSE max_date
  /\ pc' = "query"
  /\ UNCHANGED <<inputs, CALLS_PER_MINUTE, clock, limiter, search, outcome, fetch, history>>

\* ---------------------------------------------------- rate_limited_query
\* RateLimitDecorator.__period_remaining
period_remaining == Ticks(RATE_LIMIT_PERIOD) - (clock - last_reset)

\* Mutant: without @sleep_and_retry the RateLimitException leaves the search.
RateLimitedQueryNoRetry ==
  /\ pc = "query"
  /\ LET elapsed == period_remaining <= 0
         attempts == (IF elapsed THEN 0 ELSE num_calls) + 1
     IN  /\ last_reset' = IF elapsed THEN clock ELSE last_reset
         /\ num_calls' = attempts
         /\ IF attempts > clamped_calls
            THEN /\ pc' = "raised"
                 /\ blocked' = TRUE
                 /\ UNCHANGED <<clock, page, all_results, requests, short_seen,
                                query_count, probe_count>>
            ELSE /\ pc' = "page"
                 /\ page' = 0
                 /\ all_results' = <<>>
                 /\ requests' = 0
                 /\ short_seen' = FALSE
                 /\ query_count' = [query_count EXCEPT ![i + 1] = @ + 1]
                 /\ probe_count' = IF Ticks(probe) <= clock /\ clock < Ticks(probe + RATE_LIMIT_PERIOD)
                                   THEN probe_count + 1 ELSE probe_count
                 /\ UNCHANGED <<clock, blocked>>
  /\ UNCHANGED <<inputs, CALLS_PER_MINUTE, search, outcome, params, dates, fetched,
                 first_fetched, any_failed, fetch_history, request_history>>

\* One pass of sleep_and_retry's loop around the @limits wrapper, for the
\* call of cell i: the window is reset when it has elapsed, the attempt is
\* counted, and the attempt past clamped_calls raises RateLimitException,
\* which sleep_and_retry answers by sleeping period_remaining and trying
\* again.  An admitted attempt enters query_properties_paginated.
RateLimitedQuery ==
  /\ pc = "query"
  /\ LET elapsed == period_remaining <= 0
         attempts == (IF elapsed THEN 0 ELSE num_calls) + 1
     IN  /\ last_reset' = IF elapsed THEN clock ELSE last_reset
         /\ num_calls' = attempts
         /\ IF attempts > clamped_calls
            THEN /\ clock' = clock + period_remaining
                 /\ blocked' = TRUE
                 /\ UNCHANGED <<pc, page, all_results, requests, short_seen,
                                query_count, probe_count>>
            ELSE /\ pc' = "page"
                 /\ page' = 0
                 /\ all_results' = <<>>
                 /\ requests' = 0
                 /\ short_seen' = FALSE
                 /\ query_count' = [query_count EXCEPT ![i + 1] = @ + 1]
                 /\ probe_count' = IF Ticks(probe) <= clock /\ clock < Ticks(probe + RATE_LIMIT_PERIOD)
                                   THEN probe_count + 1 ELSE probe_count
                 /\ UNCHANGED <<clock, blocked>>
  /\ UNCHANGED <<inputs, CALLS_PER_MINUTE, search, outcome, params, dates, fetched,
                 first_fetched, any_failed, fetch_history, request_history>>

\* --------------------------------------------- query_properties_paginated
RECURSIVE FirstFetched(_, _, _)
FirstFetched(first, results, n) ==
  IF n = 0 THEN first
  ELSE LET before == FirstFetched(first, results, n - 1)
           prop == results[n]
       IN  IF Has(prop, "OBJECTID") /\ \A q \in before : q.OBJECTID # prop.OBJECTID
           THEN before \cup {prop}
           ELSE before

\* Mutant: a short page does not break out of the loop.
PageFeaturesNoBreak ==
  /\ pc = "page"
  /\ page < MaxPages
  /\ \E page_results \in Pages(held, PageSize) :
       LET total_count == Len(page_results)
       IN  /\ all_results' = all_results \o page_results
           /\ delivered' = delivered \o page_results
           /\ fetched' = fetched \cup {page_results[k] : k \in 1..total_count}
           /\ first_fetched' = FirstFetched(first_fetched, page_results, total_count)
           /\ short_seen' = (short_seen \/ total_count < PageSize)
           /\ cap_hit' = (cap_hit \/ (total_count >= PageSize /\ page + 1 = MaxPages))
           /\ page' = page + 1
           /\ pc' = IF page + 1 < MaxPages THEN "page" ELSE "merge"
           /\ clock' = clock + Ticks(latency + PAGE_DELAY)
  /\ requests' = requests + 1
  /\ sent' = Append(sent, [resultOffset |-> Offset(page, PageSize),
                           resultRecordCount |-> PageSize])
  /\ total_requests' = total_requests + 1
  /\ UNCHANGED <<inputs, CALLS_PER_MINUTE, limiter, search, outcome, params, dates,
                 any_failed, query_count, blocked, probe_count, failed, solo>>

\* One iteration of `for page in range(max_pages)` whose request returns
\* status 200 and a feature list: the page is appended; a page shorter than
\* page_size breaks out of the loop, a full page sleeps and goes on to the
\* next iteration, if there is one.
PageFeatures ==
  /\ pc = "page"
  /\ page < MaxPages
  /\ \E page_results \in Pages(held, PageSize) :
       LET total_count == Len(page_results)
       IN  /\ all_results' = all_results \o page_results
           /\ delivered' = delivered \o page_results
           /\ fetched' = fetched \cup {page_results[k] : k \in 1..total_count}
           /\ first_fetched' = FirstFetched(first_fetched, page_results, total_count)
           /\ cap_hit' = (cap_hit \/ (total_count >= PageSize /\ page + 1 = MaxPages))
           /\ IF total_count < PageSize
              THEN /\ pc' = "merge"
                   /\ short_seen' = TRUE
                   /\ clock' = clock + Ticks(latency)
                   /\ UNCHANGED page
              ELSE /\ page' = page + 1
                   /\ pc' = IF page + 1 < MaxPages THEN "page" ELSE "merge"
                   /\ clock' = clock + Ticks(latency + PAGE_DELAY)
                   /\ UNCHANGED short_seen
  /\ requests' = requests + 1
  /\ sent' = Append(sent, [resultOffset |-> Offset(page, PageSize),
                           resultRecordCount |-> PageSize])
  /\ total_requests' = total_requests + 1
  /\ UNCHANGED <<inputs, CALLS_PER_MINUTE, limiter, search, outcome, params, dates,
                 any_failed, query_count, blocked, probe_count, failed, solo>>

\* Mutant: a failed request throws away what the earlier pages delivered.
PageFailureDropsPages ==
  /\ pc = "page"
  /\ page < MaxPages
  /\ pc' = "merge"
  /\ clock' = clock + Ticks(latency)
  /\ any_failed' = TRUE
  /\ failed' = TRUE
  /\ requests' = requests + 1
  /\ sent' = Append(sent, [resultOffset |-> Offset(page, PageSize),
                           resultRecordCount |-> PageSize])
  /\ total_requests' = total_requests + 1
  /\ all_results' = <<>>
  /\ UNCHANGED <<inputs, CALLS_PER_MINUTE, limiter, search, outcome, params, dates, page,
                 fetched, first_fetched, short_seen, query_count, blocked, probe_count,
                 delivered, cap_hit, solo>>

\* An iteration that ends in one of the three `break`s of a failed request:
\* all_results keeps what the earlier pages delivered.
PageFailure ==
  /\ pc = "page"
  /\ page < MaxPages
  /\ pc' = "merge"
  /\ clock' = clock + Ticks(latency)
  /\ any_failed' = TRUE
  /\ failed' = TRUE
  /\ requests' = requests + 1
  /\ sent' = Append(sent, [resultOffset |-> Offset(page, PageSize),
                           resultRecordCount |-> PageSize])
  /\ total_requests' = total_requests + 1
  /\ UNCHANGED <<inputs, CALLS_PER_MINUTE, limiter, search, outcome, params, dates, fetch,
                 fetched, first_fetched, short_seen, query_count, blocked, probe_count,
                 delivered, cap_hit, solo>>

\* response.status_code != 200
PageBadStatus == PageFailure

\* status 200, 'features' not in data
PageNoFeatures == PageFailure

\* session.get or response.json() raises
PageException == PageFailure

\* --------------------------------------------- grid_radius_search, cell loop
\* The rest of the loop body once rate_limited_query has returned
\* cell_properties: the list is kept for the completeness check, its records
\* are merged, the thread sleeps, and the loop goes on or ends.
MergeCell ==
  /\ pc = "merge"
  /\ LET cell_properties == all_results
         limit_threshold == PageSize * MaxPages
         merged == MergeCellProperties(all_properties, seen_objectids,
                                       cell_properties, Len(cell_properties))
         new_properties == Len(merged.all_properties) - Len(all_properties)
     IN  /\ cells_at_limit' = IF AtLimit(cell_properties, limit_threshold)
                              THEN cells_at_limit + 1 ELSE cells_at_limit
         /\ all_properties' = merged.all_properties
         /\ seen_objectids' = merged.seen_objectids
         /\ solo' = (solo /\ Len(cell_properties) <= 1
                          /\ new_properties = Len(cell_properties))
  /\ \E cell_delay \in CellDelays : clock' = clock + cell_delay
  /\ i' = AfterFetch(i, failed)
  /\ pc' = IF AfterFetch(i, failed) < Len(cells) THEN "cell" ELSE "filter"
  \* the locals of the fetch that has returned are gone
  /\ page' = 0
  /\ all_results' = <<>>
  /\ requests' = 0
  /\ short_seen' = FALSE
  /\ failed' = FALSE
  /\ delivered' = <<>>
  /\ sent' = <<>>
  /\ UNCHANGED <<inputs, CALLS_PER_MINUTE, limiter, cells, result, outcome, params, dates,
                 fetched, first_fetched, any_failed, query_count, blocked, probe_count,
                 cap_hit, total_requests>>

\* --------------------------------------- grid_radius_search, after the loop
\* The completeness warning, then filter_properties_by_radius over
\* all_properties; an exception it raises leaves grid_radius_search,
\* otherwise the list is processed, made a DataFrame, filtered by date when
\* a date is set, and returned.
FilterAndReturn ==
  /\ pc = "filter"
  /\ warned' = (cells_at_limit > 0)
  /\ \E ids \in Enumerations(IntersectionIds(all_properties, CenterLat, CenterLon, radius_miles)) :
       LET filtered == filter_properties_by_radius(all_properties, CenterLat, CenterLon,
                                                   radius_miles, ids)
           processed_data == process_property_data(filtered.list)
       IN  /\ all_properties' = filtered.properties
           /\ IF filtered.raised
              THEN /\ pc' = "raised"
                   /\ radius_filtered_properties' = <<>>
                   /\ result' = <<>>
              ELSE /\ pc' = "done"
                   /\ radius_filtered_properties' = filtered.list
                   /\ result' = IF DateTrue(min_date) \/ DateTrue(max_date)
                                THEN post_filter_results_by_formatted_date(
                                       processed_data, min_date, max_date)
                                ELSE processed_data
  /\ UNCHANGED <<inputs, CALLS_PER_MINUTE, clock, limiter, cells, i,
                 seen_objectids, cells_at_limit, coords, params, dates, fetch, history>>

Next ==
  \/ Main
  \/ StartSearch
  \/ CellParameters
  \/ RateLimitedQuery
  \/ PageFeatures
  \/ PageBadStatus
  \/ PageNoFeatures
  \/ PageException
  \/ MergeCell
  \/ FilterAndReturn

Spec == Init /\ [][Next]_vars


\* Runs that explore the rate limiter: an empty backend, grids of 4 and of
\* 36 cells, several --rate-limit values, set-up times and observed windows.
RateLimitArgs == {0, 2}
StartDelays == {5}
ProbeStarts == {0, 5}

InitRate ==
  /\ args_rate_limit \in RateLimitArgs
  /\ grid_size \in {2, 6}
  /\ radius_miles = 1
  /\ held = {}
  /\ start_delay \in StartDelays
  /\ latency \in {0, 1}
  /\ probe \in ProbeStarts
  /\ center_point = "tuple"
  /\ filters = <<>>
  /\ filter_keys = <<>>
  /\ Imported

SpecRate == InitRate /\ [][Next]_vars

\* The search is one thread: a step that is possible is eventually taken.
FairRate == InitRate /\ [][Next]_vars /\ WF_vars(Next)

\* Runs that explore the arguments of the search: grid sizes and radii that
\* are not positive, and a centre given as a catastro number.
ArgGridSizes == {0 - 1, 0, 1, 2}
ArgRadii == {0 - 1, 0, 1}

InitArgs ==
  /\ args_rate_limit = DEFAULT_CALLS_PER_MINUTE
  /\ grid_size \in ArgGridSizes
  /\ radius_miles \in ArgRadii
  /\ held \in SUBSET {RecordSeq[1], RecordSeq[2]}
  /\ start_delay = 5
  /\ latency = 0
  /\ probe = 0
  /\ center_point \in {"tuple", "catastro"}
  /\ filters = <<>>
  /\ filter_keys = <<>>
  /\ Imported

SpecArgs == InitArgs /\ [][Next]_vars

\* Runs that explore the filter set: predicates on price, area and
\* municipality, sale dates (with the empty string, 0), over records with and
\* without a sale.
FilterSets ==
  { <<>>,
    [SALESAMT_MIN |-> 50000, SALESDTTM_MIN |-> 20200101],
    [SALESDTTM_MIN |-> 20200101, SALESDTTM_MAX |-> 20201231],
    [SALESAMT_MIN |-> 50000, SALESDTTM_MIN |-> 0],
    [MUNICIPIO |-> "SAN JUAN", SALESAMT_MAX |-> 0, CABIDA_MIN |-> 100, CABIDA_MAX |-> 900],
    [MUNICIPIO |-> ""],
    [TIPO |-> "R", ANIO |-> 2020, SALESAMT_MIN |-> 5],
    [LANDVAL_MIN |-> 1000],
    [SALESDTTM_MIN |-> 0, SALESDTTM_MAX |-> 0] }

\* The insertion orders of a filter set's keys: every order when two keys or
\* more are left to the loop over the remaining keys, one order otherwise
\* (the predicate is then the same for every order).
KeyOrders(set) ==
  LET orders == Enumerations(DOMAIN set)
  IN  IF Cardinality(DOMAIN set \ HandledKeys) >= 2
      THEN orders
      ELSE {CHOOSE order \in orders : TRUE}

InitFilters ==
  /\ args_rate_limit = DEFAULT_CALLS_PER_MINUTE
  /\ grid_size \in GridSizes
  /\ radius_miles = 1
  /\ held \in SUBSET SaleRecords
  /\ start_delay = 5
  /\ latency = 0
  /\ probe = 0
  /\ center_point = "tuple"
  /\ filters \in FilterSets
  /\ filter_keys \in KeyOrders(filters)
  /\ Imported

SpecFilters == InitFilters /\ [][Next]_vars

\* Runs that explore the values of a record's fields: a coordinate 0, and
\* sale timestamps that are 0, negative, or past the range.
InitValues ==
  /\ args_rate_limit = DEFAULT_CALLS_PER_MINUTE
  /\ grid_size = 1
  /\ radius_miles = 1
  /\ held \in SUBSET ValueRecords
  /\ start_delay = 5
  /\ latency = 0
  /\ probe = 0
  /\ center_point = "tuple"
  /\ filters = <<>>
  /\ filter_keys = <<>>
  /\ Imported

SpecValues == InitValues /\ [][Next]_vars

\* ------------------------------------------------------------- claims
HasCoordinates(prop) == Has(prop, "INSIDE_Y") /\ Has(prop, "INSIDE_X")

\* The exact distance of a record from the centre is within the radius.
InsideRadius(prop) ==
  EARTH_MM_PER_UNIT * Abs(prop.INSIDE_Y - CenterLat) <= radius_miles * MILES_TO_MM

\* The record r, as delivered, is one of the records of the list.
Appears(r, list) ==
  \E k \in 1..Len(list) :
     /\ DOMAIN r \subseteq DOMAIN list[k]
     /\ \A f \in DOMAIN r : list[k][f] = r[f]

Returned == pc = "done"
Terminated == pc \in {"done", "raised"}
LoopOver == pc \in {"filter", "done", "raised"}

\* C1: when no fetch failed and no cell reached the cap, every delivered
\* record with coordinates inside the radius appears in the final result.
\* Stated here for the searches that return a result and for the records the
\* merge can key (non-zero OBJECTID, delivered with one content only).
C1_Completeness ==
  (Returned /\ ~any_failed /\ cells_at_limit = 0) =>
     \A r \in fetched :
        ( /\ HasCoordinates(r) /\ InsideRadius(r)
          /\ Truthy(r, "OBJECTID")
          /\ \A q \in fetched : (Has(q, "OBJECTID") /\ q.OBJECTID = r.OBJECTID) => q = r )
        => Appears(r, result)

\* C2: the merged list never holds two records with one OBJECTID, and each
\* record of it is the first one delivered with its OBJECTID (with the
\* distances written into it once the filter has run).
C2_DedupFirstWins ==
  /\ \A a, b \in 1..Len(all_properties) :
        a # b => all_properties[a].OBJECTID # all_properties[b].OBJECTID
  /\ \A k \in 1..Len(all_properties) :
        \E r \in first_fetched :
           /\ Appears(r, <<all_properties[k]>>)
           /\ DOMAIN all_properties[k] \subseteq DOMAIN r \cup {"DISTANCE_KM", "DISTANCE_MILES"}

\* C2 witness: both records with OBJECTID 1 were delivered, by different
\* cells, and the merged list kept the one delivered first although the
\* backend stores it second.
C2_Witness ==
  /\ pc = "filter"
  /\ grid_size = 2
  /\ {RecordSeq[2], RecordSeq[3]} \subseteq fetched
  /\ \E k \in 1..Len(all_properties) : all_properties[k] = RecordSeq[3]

\* C3: every record of the returned list is within the radius, and no two
\* of them share an OBJECTID.
C3_RadiusSound ==
  Returned =>
     /\ \A k \in 1..Len(result) : HasCoordinates(result[k]) /\ InsideRadius(result[k])
     /\ \A a, b \in 1..Len(result) : a # b => result[a].OBJECTID # result[b].OBJECTID

\* C3 witness: a list with a record without coordinates and a record outside
\* the radius was filtered, and a record came through.
C3_Witness ==
  /\ Returned
  /\ Len(result) >= 1
  /\ \E k \in 1..Len(all_properties) : ~HasCoordinates(all_properties[k])
  /\ \E k \in 1..Len(all_properties) :
        HasCoordinates(all_properties[k]) /\ ~InsideRadius(all_properties[k])

\* C4: of the deduplicated records given to the filter, one with coordinates
\* is in the output exactly if its distance is within the radius.
C4_InclusionExclusion ==
  Returned =>
     \A k \in 1..Len(all_properties) :
        HasCoordinates(all_properties[k]) =>
           (InsideRadius(all_properties[k]) <=> Appears(all_properties[k], result))

\* C5: grid_radius_search never raises to its caller.
C5_NeverRaises == pc # "raised"

\* C6: when a fetch failed, every cell was still queried, and the merged list
\* holds every delivered record (itself, or the record admitted earlier with
\* its OBJECTID).
C6_FailureContained ==
  (LoopOver /\ any_failed) =>
     /\ \A n \in DOMAIN query_count : query_count[n] = 1
     /\ \A r \in fetched :
           \E k \in 1..Len(all_properties) :
              \/ all_properties[k] = r
              \/ Has(r, "OBJECTID") /\ all_properties[k].OBJECTID = r.OBJECTID

\* C7: no 60-second window holds more invocations of the rate-limited fetch
\* than callsPerMinute.  Stated here for the runs that leave the limit at its
\* default, for the window that starts at `probe`.
C7_RollingWindowCap ==
  CALLS_PER_MINUTE = DEFAULT_CALLS_PER_MINUTE => probe_count <= CALLS_PER_MINUTE

\* C8: a call that finds the budget exhausted is delayed, not failed or
\* dropped: no cell is ever queried twice, and the search ends with every
\* cell queried exactly once.
C8_DelayedNeverDropped ==
  /\ [](\A n \in DOMAIN query_count : query_count[n] <= 1)
  /\ <>(Returned /\ \A n \in DOMAIN query_count : query_count[n] = 1)

\* C8 witness: the search returned after a call had been blocked.
C8_Witness ==
  /\ Returned
  /\ blocked
  /\ Len(query_count) = 36
  /\ \A n \in DOMAIN query_count : query_count[n] = 1

\* C9: once main has set the rate limit to N, no 60-second window holds more
\* than N invocations of the rate-limited fetch.
C9_ConfiguredCapEnforced ==
  pc # "main" => probe_count <= CALLS_PER_MINUTE

\* C10: a fetch issues at most max_pages page requests, and none after a page
\* shorter than page_size.
C10_PaginationTerminates ==
  /\ requests <= MaxPages
  /\ pc = "page" => (requests < MaxPages /\ ~short_seen)

\* C10 witness: a fetch ended by the page cap, every page full.
C10_Witness ==
  /\ pc = "merge"
  /\ requests = MaxPages
  /\ ~short_seen
  /\ ~any_failed
  /\ Len(all_results) = PageSize * MaxPages

\* C11: a failed page request ends the fetch: the fetch is over (no page
\* request can follow) and what it returns is exactly the records of the
\* pages received before the failure, in order.
C11_FailureKeepsPages ==
  failed => (pc = "merge" /\ all_results = delivered
                          /\ requests = (Len(delivered) \div PageSize) + 1)

\* C11 witness: page 0 was delivered in full and the request of page 1 failed.
C11_Witness ==
  /\ failed
  /\ pc = "merge"
  /\ requests = 2
  /\ Len(all_results) = PageSize

\* C12: when the search ends, the completeness warning was printed exactly
\* if some fetch received max_pages full pages; and the warning is not
\* fatal: a search that warned returns its result.
C12_WarningIffCapHit ==
  /\ Terminated => (warned <=> cap_hit)
  /\ (Terminated /\ warned) => Returned

\* The exact distance of a record from the centre, in millimetres.
ExactDistance(prop) ==
  haversine_distance(CenterLat, CenterLon, prop.INSIDE_Y, prop.INSIDE_X)

\* The position at which the merge admitted the record with this OBJECTID.
MergeIndex(prop) ==
  CHOOSE k \in 1..Len(all_properties) : all_properties[k].OBJECTID = prop.OBJECTID

\* C13: the list filter_properties_by_radius returns is in ascending order of
\* distance from the centre, and records at the same distance are in the
\* order in which the merge admitted them.
C13_SortedByDistance ==
  Returned =>
     \A a, b \in 1..Len(radius_filtered_properties) :
        a < b =>
          LET first == radius_filtered_properties[a]
              second == radius_filtered_properties[b]
          IN  /\ ExactDistance(first) <= ExactDistance(second)
              /\ ExactDistance(first) = ExactDistance(second)
                    => MergeIndex(first) < MergeIndex(second)

\* Every order of the records of a list.
Reorderings(list) ==
  {[k \in 1..Len(list) |-> list[f[k]]] : f \in Enumerations(1..Len(list))}

ObjectIds(list) == {list[k].OBJECTID : k \in 1..Len(list)}

\* C14: with the per-cell results fixed, every order of the cells gives a
\* result with the same OBJECTIDs.  Stated for the searches in which each
\* cell delivered at most one record, a new one: there the merged lists of
\* the other cell orders are the permutations of all_properties.
C14_CellOrderIndependent ==
  (Returned /\ solo /\ Len(all_properties) <= Len(cells)) =>
     \A other \in Reorderings(all_properties) :
        \A ids \in Enumerations(IntersectionIds(other, CenterLat, CenterLon, radius_miles)) :
           LET filtered == filter_properties_by_radius(other, CenterLat, CenterLon,
                                                       radius_miles, ids)
           IN  /\ ~filtered.raised
               /\ ObjectIds(filtered.list) = ObjectIds(radius_filtered_properties)

\* C15: a search with grid_size < 1 or radius_miles <= 0 (and a centre that
\* has coordinates) is rejected by an error before any grid is made and
\* before any cell is queried.
C15_InvalidArgumentRejected ==
  ((grid_size < 1 \/ radius_miles <= 0) /\ pc \notin {"main", "search"} /\ coords # <<>>) =>
     /\ pc = "raised"
     /\ cells = <<>>
     /\ query_count = <<>>
     /\ fetched = {}

\* C16: when the lookup of the catastro number gives no coordinates, the
\* search has returned the empty result: it did not raise, made no grid and
\* issued no request.
C16_LookupFailureEmpty ==
  (center_point = "catastro" /\ pc \notin {"main", "search"} /\ coords = <<>>) =>
     /\ pc = "done"
     /\ result = <<>>
     /\ cells = <<>>
     /\ query_count = <<>>
     /\ fetched = {}
     /\ ~any_failed

\* C16 witness: a search by catastro number whose lookup failed has returned.
C16_Witness ==
  /\ center_point = "catastro"
  /\ coords = <<>>
  /\ pc = "done"
  /\ grid_size = 2
  /\ radius_miles = 1

\* Cells as made by create_grid_cells: coordinates multiplied by grid_size.
CellArea(cell) == (cell[3] - cell[1]) * (cell[4] - cell[2])

InteriorsOverlap(c, d) ==
  /\ c[1] < d[3] /\ d[1] < c[3]
  /\ c[2] < d[4] /\ d[2] < c[4]

RECURSIVE TotalArea(_, _)
TotalArea(list, n) == IF n = 0 THEN 0 ELSE TotalArea(list, n - 1) + CellArea(list[n])

\* C17: for grid_size >= 1 and a positive radius, create_grid_cells returns
\* grid_size * grid_size cells, each with min < max on both axes, that tile
\* the square around the centre: each cell lies in the square, no two
\* overlap in their interiors, and their areas add up to the square's.
C17_GridTiling ==
  (pc = "cell" /\ i = 0 /\ grid_size >= 1 /\ radius_miles > 0) =>
     LET square == << grid_size * (CenterLon - radius_deg_lon(radius_miles)),
                      grid_size * (CenterLat - radius_deg_lat(radius_miles)),
                      grid_size * (CenterLon + radius_deg_lon(radius_miles)),
                      grid_size * (CenterLat + radius_deg_lat(radius_miles)) >>
     IN  /\ Len(cells) = grid_size * grid_size
         /\ \A n \in 1..Len(cells) :
               /\ cells[n][1] < cells[n][3]
               /\ cells[n][2] < cells[n][4]
               /\ square[1] <= cells[n][1] /\ cells[n][3] <= square[3]
               /\ square[2] <= cells[n][2] /\ cells[n][4] <= square[4]
         /\ \A n, m \in 1..Len(cells) : n # m => ~InteriorsOverlap(cells[n], cells[m])
         /\ TotalArea(cells, Len(cells)) = CellArea(square)

\* C17 witness: a grid of 36 cells was made.
C17_Witness ==
  /\ pc = "cell"
  /\ grid_size = 6
  /\ Len(cells) = 36
  /\ i = 0

DateKeys == {"SALESDTTM_MIN", "SALESDTTM_MAX"}

\* The clauses of the descriptor's WHERE predicate.
WhereOf(descriptor) ==
  IF Has(descriptor, "where")
  THEN {descriptor.where[k] : k \in 1..Len(descriptor.where)}
  ELSE {}

\* C18: for the filter set create_cell_query_parameters was given, each date
\* key it holds is returned as min_date / max_date, whatever its value, and
\* the WHERE predicate has no clause on a date key.
C18_DatesExtracted ==
  /\ "SALESDTTM_MIN" \in DOMAIN params_in => cell_min_date = params_in["SALESDTTM_MIN"]
  /\ "SALESDTTM_MAX" \in DOMAIN params_in => cell_max_date = params_in["SALESDTTM_MAX"]
  /\ \A clause \in WhereOf(base_params) : clause.column \notin DateKeys

\* C19: when the caller gives a date range, the date filter runs with the
\* caller's dates, and every row of the result has a formatted sale date
\* inside the range.
C19_DateRangeApplied ==
  (Returned /\ (ParamTrue(filters, "SALESDTTM_MIN") \/ ParamTrue(filters, "SALESDTTM_MAX"))) =>
     /\ ParamTrue(filters, "SALESDTTM_MIN") => min_date = filters["SALESDTTM_MIN"]
     /\ ParamTrue(filters, "SALESDTTM_MAX") => max_date = filters["SALESDTTM_MAX"]
     /\ \A k \in 1..Len(result) :
           /\ Has(result[k], "SALESDTTM_FORMATTED")
           /\ result[k].SALESDTTM_FORMATTED # None
           /\ DateTrue(min_date) => result[k].SALESDTTM_FORMATTED >= min_date
           /\ DateTrue(max_date) => result[k].SALESDTTM_FORMATTED <= max_date

\* The keys whose name ends in _MIN or _MAX, among the keys of FilterSets.
RangeSuffixedKeys ==
  {"SALESAMT_MIN", "SALESAMT_MAX", "CABIDA_MIN", "CABIDA_MAX",
   "SALESDTTM_MIN", "SALESDTTM_MAX", "LANDVAL_MIN"}

\* One clause per filter of the set that is a predicate filter.
ExpectedClauses(set) ==
  {Clause(k, "=", set[k], k \in StringKeys) :
      k \in DOMAIN set \ (HandledKeys \cup RangeSuffixedKeys)} \cup
  {Clause("MUNICIPIO", "=", set[k], TRUE) : k \in {"MUNICIPIO"} \cap DOMAIN set}
  \cup {Clause("SALESAMT", ">=", set[k], FALSE) : k \in {"SALESAMT_MIN"} \cap DOMAIN set}
  \cup {Clause("SALESAMT", "<=", set[k], FALSE) : k \in {"SALESAMT_MAX"} \cap DOMAIN set}
  \cup {Clause("CABIDA", ">=", set[k], FALSE) : k \in {"CABIDA_MIN"} \cap DOMAIN set}
  \cup {Clause("CABIDA", "<=", set[k], FALSE) : k \in {"CABIDA_MAX"} \cap DOMAIN set}

\* C20: the WHERE predicate is the conjunction of exactly one clause per
\* predicate filter of the set create_cell_query_parameters was given, and
\* the descriptor has no WHERE when the set is empty.
C20_PredicateExact ==
  /\ WhereOf(base_params) = ExpectedClauses(params_in)
  /\ Has(base_params, "where") => Len(base_params.where) = Cardinality(ExpectedClauses(params_in))
  /\ DOMAIN params_in = {} => ~Has(base_params, "where")


\* C21: every key of the filter set that is neither one of the five keys
\* with a clause of their own nor range-suffixed is emitted as exactly one
\* equality clause, quoted exactly when its value is a string; and no
\* equality clause is on a range-suffixed key.
C21_ExtraKeysEquality ==
  /\ \A key \in DOMAIN params_in \ (HandledKeys \cup RangeSuffixedKeys) :
        /\ Has(base_params, "where")
        /\ Cardinality({k \in 1..Len(base_params.where) :
                           base_params.where[k].column = key}) = 1
        /\ Clause(key, "=", params_in[key], key \in StringKeys) \in WhereOf(base_params)
  /\ \A clause \in WhereOf(base_params) :
        clause.op = "=" => clause.column \notin RangeSuffixedKeys

\* The records filter_properties_by_radius puts in valid_properties.
Indexed(list) ==
  LET valid_properties == ValidProperties(list, Len(list))
  IN  {valid_properties[v][2] : v \in 1..Len(valid_properties)}

\* C22: once the loop is over, every merged record that has both coordinates
\* is among the indexed records, whatever the coordinate values, every
\* indexed record has both coordinates, and the filter did not raise.
C22_CoordinatesIndexed ==
  LoopOver =>
     /\ \A k \in 1..Len(all_properties) :
           HasCoordinates(all_properties[k]) <=> all_properties[k] \in Indexed(all_properties)
     /\ pc # "raised"

\* The timestamp is in the range 0 .. 2147483647 seconds.
InTimestampRange(ts) == 0 <= ts /\ ts <= TIMESTAMP_MAX \div TIMESTAMP_UNIT

\* C23: every record the filter passes is kept by process_property_data, and
\* one with a sale timestamp gets a formatted date: a calendar date when the
\* timestamp is in range, null when it is not.
C23_TimestampEnriched ==
  Returned =>
     /\ Len(result) = Len(radius_filtered_properties)
     /\ \A k \in 1..Len(result) :
           Has(radius_filtered_properties[k], "SALESDTTM") =>
              /\ Has(result[k], "SALESDTTM_FORMATTED")
              /\ IF InTimestampRange(radius_filtered_properties[k].SALESDTTM)
                 THEN /\ result[k].SALESDTTM_FORMATTED # None
                      /\ result[k].SALESDTTM_FORMATTED >= 19700101
                      /\ result[k].SALESDTTM_FORMATTED <= 20380119
                 ELSE result[k].SALESDTTM_FORMATTED = None

\* The merge of the fetched list into the accumulators, once.
MergedOnce ==
  MergeCellProperties(all_properties, seen_objectids, all_results, Len(all_results))

\* The same list delivered and merged a second time.
MergedTwice ==
  MergeCellProperties(MergedOnce.all_properties, MergedOnce.seen_objectids,
                      all_results, Len(all_results))

\* C24: when a fetch has returned its list, merging the list and then
\* merging the same list again gives the merged list, in the same order, and
\* the seen set that merging it once gives.
C24_MergeIdempotent ==
  pc = "merge" => MergedTwice = MergedOnce

\* C24 witness: a fetched list of two records or more is about to be merged,
\* and the merge admits a record of it.
C24_Witness ==
  /\ pc = "merge"
  /\ Len(all_results) >= 2
  /\ Len(MergedOnce.all_properties) > Len(all_properties)
  /\ Len(all_properties) >= 1

\* C25: the fetches are one after the other, in cell order: the cells before
\* the current one have been fetched once, the current one is being fetched
\* or not yet, no later cell has been touched; and the filter runs, and the
\* search ends, only after every cell has been fetched.
C25_SequentialPhases ==
  /\ \A n \in DOMAIN query_count :
        /\ n <= i => query_count[n] = 1
        /\ n = i + 1 => query_count[n] = (IF pc \in {"page", "merge"} THEN 1 ELSE 0)
        /\ n > i + 1 => query_count[n] = 0
  /\ pc \in {"page", "merge"} => i < Len(cells)
  /\ (LoopOver /\ cells # <<>>) =>
        /\ i = Len(cells)
        /\ \A n \in DOMAIN query_count : query_count[n] = 1

\* C25 witness: the third of four cells is being fetched.
C25_Witness ==
  /\ pc = "page"
  /\ grid_size = 2
  /\ i = 2
  /\ query_count = <<1, 1, 1, 0>>
  /\ requests = 1

\* C26: the k-th request of a fetch (k = 0, 1, ...) carries resultOffset
\* k * page_size and resultRecordCount page_size, and the list of the fetch
\* is the concatenation of the pages delivered, in page order.
C26_PageOffsets ==
  /\ Len(sent) = requests
  /\ \A k \in 1..Len(sent) :
        /\ sent[k].resultOffset = (k - 1) * PageSize
        /\ sent[k].resultRecordCount = PageSize
  /\ pc \in {"page", "merge"} => all_results = delivered

\* C26 witness: a fetch sent max_pages requests and every page came full.
C26_Witness ==
  /\ pc = "merge"
  /\ Len(sent) = MaxPages
  /\ sent[MaxPages].resultOffset = (MaxPages - 1) * PageSize
  /\ Len(all_results) = MaxPages * PageSize

\* C27: once the loop is over, every id the bounding-box query yields is a
\* position of valid_properties, and the record at that position is the
\* record that was inserted under the id.
C27_IdsResolveToInserted ==
  LoopOver =>
     LET valid_properties == ValidProperties(all_properties, Len(all_properties))
     IN  \A id_object \in IntersectionIds(all_properties, CenterLat, CenterLon, radius_miles) :
            /\ id_object < Len(valid_properties)
            /\ valid_properties[id_object + 1][2] = all_properties[id_object + 1]

\* C28: create_cell_query_parameters leaves the caller's filter set as it
\* was, and what each call returned is what a call with the caller's filter
\* set returns: the same WHERE clauses and the same two dates.
C28_ParametersRepeatable ==
  /\ DOMAIN additional_params = DOMAIN filters
  /\ pc \in {"query", "page", "merge"} =>
        LET fresh == create_cell_query_parameters(cells[i + 1], filters, filter_keys)
        IN  /\ base_params = fresh.base_params
            /\ cell_min_date = fresh.min_date
            /\ cell_max_date = fresh.max_date

\* C29: no cell is fetched twice, a search sends at most
\* grid_size * grid_size * max_pages page requests, and when the loop is over
\* every cell has been fetched exactly once.
C29_BoundedRequests ==
  /\ \A n \in DOMAIN query_count : query_count[n] <= 1
  /\ total_requests <= grid_size * grid_size * MaxPages
  /\ LoopOver => \A n \in DOMAIN query_count : query_count[n] = 1

\* C29 witness: the loop over four cells is over; a fetch failed, another
\* reached the page cap, and five requests or more were sent.
C29_Witness ==
  /\ pc = "filter"
  /\ grid_size = 2
  /\ any_failed
  /\ cap_hit
  /\ total_requests >= 5
  /\ \A n \in DOMAIN query_count : query_count[n] = 1

\* C30: between two fetches, every record fetched so far is in the merged
\* list unless a record with its OBJECTID is, and the seen set is the set of
\* the OBJECTIDs of the merged list.
C30_MergeDropsOnlyDuplicates ==
  pc \notin {"page", "merge"} =>
     /\ \A r \in fetched :
           \/ \E k \in 1..Len(all_properties) : all_properties[k] = r
           \/ Has(r, "OBJECTID") /\ r.OBJECTID \in ObjectIds(all_properties)
     /\ seen_objectids = ObjectIds(all_properties)

====
